---------------------------- MODULE Spec2Model ----------------------------
(***************************************************************************)
(* A model of the star-rating pipeline of src/baseline.py and              *)
(* src/current.py.                                                         *)
(*                                                                         *)
(* State.  df is self.df of StarRatingCalculator: a table, kept as a       *)
(* sequence of rows, each row a record of its columns (a scalar assigned   *)
(* to a column is broadcast to every row, as pandas does).  loc holds the  *)
(* local variables of the method that is running, pc the position of the  *)
(* program, err the exception that ended a method ("none" when none was    *)
(* raised), cur the table returned by restandardize_var.                   *)
(*                                                                         *)
(* Numbers.  A float is a fixed-point integer.  Standardised values (z, t, *)
(* w, the limits, the threshold) are counted in steps of 0.001, which is   *)
(* self.step, so step = 1 and threshold = 2580.  The moments of the        *)
(* clipped series, mean_t and std_t, are counted in steps/NRows, so that   *)
(* the mean of NRows values is exact.  NaN, +inf and -inf are three        *)
(* values outside the finite range; every operator treats them as IEEE     *)
(* arithmetic does (a comparison with NaN is false, 0/0 is NaN, x/0 is     *)
(* +-inf).                                                                 *)
(***************************************************************************)
EXTENDS Integers, Naturals, Sequences, FiniteSets, TLC

VARIABLES pc, df, loc, err, cur

vars == <<pc, df, loc, err, cur>>

-----------------------------------------------------------------------------
(* Bounds of the model *)

\* rows of the table given to winsorize
NRows == 9
\* raw measure values are 0 .. MaxRaw
MaxRaw == 3

-----------------------------------------------------------------------------
(* Program constants *)

\* self.step = 0.001: the unit in which standardised values are counted
step == 1
\* one whole (1.0) in steps
Unit == 1000 * step
\* self.threshold = 2.58
threshold == 2580
\* for i in range(1, 10001)
MaxIter == 10000

-----------------------------------------------------------------------------
(* Floats *)

PInf == 2^30
NInf == -PInf
NaN == PInf + 1

IsNaN(a) == a = NaN
IsFinite(a) == a > NInf /\ a < PInf

\* comparisons: false as soon as one side is NaN
FGt(a, b) == ~IsNaN(a) /\ ~IsNaN(b) /\ a > b
FLt(a, b) == ~IsNaN(a) /\ ~IsNaN(b) /\ a < b
FLe(a, b) == ~IsNaN(a) /\ ~IsNaN(b) /\ a <= b
FGe(a, b) == ~IsNaN(a) /\ ~IsNaN(b) /\ a >= b

\* a / b rounded to the nearest integer, b > 0
RDiv(a, b) == (2 * a + b) \div (2 * b)

\* the float a / b for b >= 0, the quotient counted in 1/k
FDiv(a, b, k) ==
    IF IsNaN(a) \/ IsNaN(b) THEN NaN
    ELSE IF ~IsFinite(a) THEN (IF IsFinite(b) THEN a ELSE NaN)
    ELSE IF ~IsFinite(b) THEN 0
    ELSE IF b = 0 THEN (IF a = 0 THEN NaN ELSE IF a > 0 THEN PInf ELSE NInf)
    ELSE RDiv(a * k, b)

\* a - b
FSub(a, b) ==
    IF IsNaN(a) \/ IsNaN(b) THEN NaN
    ELSE IF ~IsFinite(a) THEN (IF a = b THEN NaN ELSE a)
    ELSE IF ~IsFinite(b) THEN -b
    ELSE a - b

RECURSIVE SqrtBetween(_, _, _)
\* the largest r in lo .. hi with r * r <= n
SqrtBetween(n, lo, hi) ==
    IF lo >= hi THEN lo
    ELSE LET mid == (lo + hi + 1) \div 2
         IN IF mid * mid <= n THEN SqrtBetween(n, mid, hi)
                              ELSE SqrtBetween(n, lo, mid - 1)

\* floor of the square root
ISqrt(n) == SqrtBetween(n, 0, 46340)

-----------------------------------------------------------------------------
(* Series *)

RECURSIVE SumTo(_, _)
SumTo(s, n) == IF n = 0 THEN 0 ELSE s[n] + SumTo(s, n - 1)

Sum(s) == SumTo(s, Len(s))

AnyNaN(s) == \E r \in DOMAIN s : ~IsFinite(s[r])

Column(table, name) == [r \in DOMAIN table |-> table[r][name]]

\* Series.mean() of pandas over a column without missing values, in steps
mean(x) == RDiv(Unit * Sum(x), Len(x))

\* Series.std() of pandas (ddof = 1), in steps; NaN for fewer than two rows
std(x) ==
    IF Len(x) < 2 THEN NaN
    ELSE LET m == mean(x)
             sq == [r \in DOMAIN x |-> (Unit * x[r] - m) * (Unit * x[r] - m)]
         IN ISqrt(RDiv(Sum(sq), Len(x) - 1))

\* (df[var] - mean_val) / std_val, in steps
zscore(x, mean_val, std_val) ==
    [r \in DOMAIN x |-> FDiv(FSub(Unit * x[r], mean_val), std_val, Unit)]

\* ndarray.mean() of numpy, in steps/NRows: NaN as soon as one value is
ndarray_mean(t) == IF AnyNaN(t) THEN NaN ELSE Sum(t)

\* ndarray.std() of numpy (ddof = 0), in steps/NRows
ndarray_std(t) ==
    IF AnyNaN(t) THEN NaN
    ELSE LET sq == [r \in DOMAIN t |-> t[r] * t[r]]
         IN ISqrt(Len(t) * Sum(sq) - Sum(t) * Sum(t))

\* ndarray.max() and ndarray.min() of numpy: NaN as soon as one value is
ndarray_max(w) ==
    IF \E r \in DOMAIN w : IsNaN(w[r]) THEN NaN
    ELSE CHOOSE m \in {w[r] : r \in DOMAIN w} : \A r \in DOMAIN w : w[r] <= m

ndarray_min(w) ==
    IF \E r \in DOMAIN w : IsNaN(w[r]) THEN NaN
    ELSE CHOOSE m \in {w[r] : r \in DOMAIN w} : \A r \in DOMAIN w : w[r] >= m

\* (value - mean_t) / std_t for a value in steps and moments in steps/NRows
rescale(value, mean_t, std_t) ==
    IF IsNaN(value) THEN NaN
    ELSE IF ~IsFinite(value) THEN FDiv(FSub(value, mean_t), std_t, Unit)
    ELSE FDiv(FSub(NRows * value, mean_t), std_t, Unit)

-----------------------------------------------------------------------------
(* StarRatingCalculator.winsorize *)

\* np.where(t > upl, upl, np.where(t < lol, lol, t))
clip(t, upl, lol) ==
    [r \in DOMAIN t |->
        IF FGt(t[r], upl) THEN upl ELSE IF FLt(t[r], lol) THEN lol ELSE t[r]]

\* a limit adjusted the wrong way
adjust_upl_outwards(upl) == upl + step

\* the limits are adjusted towards zero by one step
adjust_upl(upl) == upl - step
adjust_lol(lol) == lol + step

\* the convergence test of the loop
converged(max_w, min_w) == FLe(max_w, threshold) /\ FGe(min_w, -threshold)

\* one pass of the loop body over the locals l
winsorize_pass(l) ==
    LET t == clip(l.t, l.upl, l.lol)
        mean_t == ndarray_mean(t)
        std_t == ndarray_std(t)
        w_var == [r \in DOMAIN t |-> rescale(t[r], mean_t, std_t)]
        max_w == ndarray_max(w_var)
        min_w == ndarray_min(w_var)
        done == converged(max_w, min_w)
    IN [mean_val |-> l.mean_val, std_val |-> l.std_val,
        i |-> l.i + 1, t |-> t, mean_t |-> mean_t, std_t |-> std_t,
        w_var |-> w_var, broke |-> done,
        upl |-> IF ~done /\ FGt(max_w, threshold) THEN adjust_upl(l.upl) ELSE l.upl,
        lol |-> IF ~done /\ FLt(min_w, -threshold) THEN adjust_lol(l.lol) ELSE l.lol]

\* the columns winsorize stores, from the locals l
winsorize_store(table, l) ==
    [r \in DOMAIN table |->
        [w |-> l.w_var[r], mean_t |-> l.mean_t, std_t |-> l.std_t,
         upl |-> l.upl, lol |-> l.lol] @@ table[r]]

\* mean, std, the first z-scores and the symmetric limits
winsorize_begin ==
    /\ pc = "winsorize"
    /\ LET x == Column(df, "var")
           mean_val == mean(x)
           std_val == std(x)
           z == zscore(x, mean_val, std_val)
       IN loc' = [mean_val |-> mean_val, std_val |-> std_val, i |-> 0, t |-> z,
                  mean_t |-> NaN, std_t |-> NaN, w_var |-> z, broke |-> FALSE,
                  upl |-> threshold, lol |-> -threshold]
    /\ pc' = "winsorize_loop"
    /\ UNCHANGED <<df, err, cur>>

\* one pass of the loop; the loop ends on break or after pass MaxIter
winsorize_iterate ==
    /\ pc = "winsorize_loop"
    /\ loc.i < MaxIter
    /\ loc' = winsorize_pass(loc)
    /\ pc' = IF loc'.broke \/ loc'.i = MaxIter THEN "winsorize_store"
                                                ELSE "winsorize_loop"
    /\ UNCHANGED <<df, err, cur>>

\* the results are stored, whatever ended the loop
winsorize_return ==
    /\ pc = "winsorize_store"
    /\ df' = winsorize_store(df, loc)
    /\ pc' = "winsorize_done"
    /\ UNCHANGED <<loc, err, cur>>

-----------------------------------------------------------------------------
(* restandardize_var of src/current.py *)

RECURSIVE insert_row(_, _)
insert_row(sorted, row) ==
    IF sorted = <<>> THEN <<row>>
    ELSE IF row.provfs < Head(sorted).provfs THEN <<row>> \o sorted
    ELSE <<Head(sorted)>> \o insert_row(Tail(sorted), row)

RECURSIVE sort_values(_)
\* df.sort_values('provfs')
sort_values(table) ==
    IF table = <<>> THEN <<>>
    ELSE insert_row(sort_values(Tail(table)), Head(table))

\* the two flags exchanged
flagtc_exchanged(zc, upl_var, lol_var) ==
    IF FGt(zc, upl_var) THEN 1
    ELSE IF ~IsNaN(zc) /\ FLt(zc, lol_var) THEN 2
    ELSE 0

\* the truncation flag: 1 below the lower limit, 2 above the upper limit
flagtc(zc, upl_var, lol_var) ==
    IF FGt(zc, upl_var) THEN 2
    ELSE IF ~IsNaN(zc) /\ FLt(zc, lol_var) THEN 1
    ELSE 0

restandardize_row(row, mean_var, std_var, upl_var, lol_var, var_mean_t, var_std_t) ==
    LET zc == FDiv(FSub(Unit * row.var, mean_var), std_var, Unit)
        flag == flagtc(zc, upl_var, lol_var)
        tc == IF flag = 2 THEN upl_var ELSE IF flag = 1 THEN lol_var ELSE zc
    IN [zc |-> zc, tc |-> tc, flagtc |-> flag,
        wc |-> rescale(tc, var_mean_t, var_std_t)] @@ row

restandardize_var(df_current, mean_var, std_var, upl_var, lol_var, var_mean_t, var_std_t) ==
    sort_values(
        [r \in DOMAIN df_current |->
            restandardize_row(df_current[r], mean_var, std_var, upl_var, lol_var,
                              var_mean_t, var_std_t)])

\* the current period's table: the baseline's raw values, in the baseline's
\* row order or in the reverse order
df_current(reversed) ==
    [r \in DOMAIN df |->
        LET b == df[IF reversed THEN Len(df) + 1 - r ELSE r]
        IN [provfs |-> b.provfs, var |-> b.var]]

\* the caller applies the frozen parameters of the baseline to the same raw values
restandardize ==
    /\ pc = "winsorize_done"
    /\ \E reversed \in BOOLEAN :
          cur' = restandardize_var(df_current(reversed), loc.mean_val, loc.std_val,
                                   df[1].upl, df[1].lol, df[1].mean_t, df[1].std_t)
    /\ pc' = "current_done"
    /\ UNCHANGED <<df, loc, err>>

-----------------------------------------------------------------------------
(* The calibration of one measure and its reapplication *)

RECURSIVE SortedColumns(_)
\* the columns of n raw values, in ascending order
SortedColumns(n) ==
    IF n = 0 THEN {<<>>}
    ELSE {Append(p[1], p[2]) :
            p \in {q \in SortedColumns(n - 1) \X (0 .. MaxRaw) :
                      n = 1 \/ q[2] >= q[1][n - 1]}}

InitWinsorize ==
    /\ pc = "winsorize"
    /\ \E x \in SortedColumns(NRows) :
          df = [r \in 1 .. NRows |-> [provfs |-> r, var |-> x[r]]]
    /\ loc = [i |-> 0]
    /\ err = "none"
    /\ cur = <<>>

NextWinsorize ==
    \/ winsorize_begin
    \/ winsorize_iterate
    \/ winsorize_return
    \/ restandardize

SpecWinsorize == InitWinsorize /\ [][NextWinsorize]_vars

(* C1: when winsorize completes, the stored rescaled series lies within
   -2.58 .. 2.58, or the measure is flagged as a failure (no ordinary return
   after the iteration cap was exhausted without meeting the bound). *)
C1_BoundedOrFlagged ==
    pc \in {"winsorize_done", "current_done"} =>
        \/ \A r \in DOMAIN df :
              FLe(df[r].w, threshold) /\ FGe(df[r].w, -threshold)
        \/ err # "none"

(* C10: when a standard deviation used by winsorize is zero (of the raw
   column, or of the clipped series in its last pass), winsorize does not
   return as if the measure had been calibrated: it has failed. *)
C10_ZeroStdFails ==
    (/\ pc \in {"winsorize_done", "current_done"}
     /\ (loc.std_val = 0 \/ loc.std_t = 0))
        => err # "none"

(* C9, as claimed: after winsorize both frozen limits lie at or beyond the
   threshold in magnitude. *)
C9_LimitsBeyondThreshold ==
    pc \in {"winsorize_done", "current_done"} =>
        \A r \in DOMAIN df :
            /\ (df[r].upl >= threshold \/ df[r].upl <= -threshold)
            /\ (df[r].lol >= threshold \/ df[r].lol <= -threshold)

(* C9, amended: after winsorize the upper limit is at most 2.58 and the lower
   limit at least -2.58, and each limit has moved from its start, towards
   the other, by at most one step per pass. *)
C9_LimitsWithinThreshold ==
    pc \in {"winsorize_done", "current_done"} =>
        \A r \in DOMAIN df :
            /\ -threshold <= df[r].lol
            /\ df[r].upl <= threshold
            /\ threshold - df[r].upl <= loc.i * step
            /\ df[r].lol + threshold <= loc.i * step

\* a measure that converged after its upper limit was moved
C9_Witness ==
    /\ pc = "winsorize_done"
    /\ loc.broke
    /\ loc.i > 1
    /\ df[1].upl < threshold
    /\ \A r \in DOMAIN df : IsFinite(df[r].w)

(* C5: restandardize_var on the baseline's raw values, with the baseline's
   mean and std and the limits and truncated moments winsorize stored, gives
   every facility the score winsorize gave it. *)
C5_RoundTrip ==
    pc = "current_done" =>
        \A c \in DOMAIN cur : \A b \in DOMAIN df :
            cur[c].provfs = df[b].provfs => cur[c].wc = df[b].w

\* a facility truncated to a moved upper limit, with a finite score
C5_Witness ==
    /\ pc = "current_done"
    /\ df[1].upl < threshold
    /\ \E c \in DOMAIN cur : cur[c].flagtc = 2 /\ IsFinite(cur[c].wc)

-----------------------------------------------------------------------------
(* StarRatingCalculator.assign_star_ranks and calculate_cutoffs *)

\* rows of the scored table
ScoreRows == 6
\* composite scores are 1 .. MaxScore, or missing
MaxScore == 5

RECURSIVE insert_value(_, _)
insert_value(sorted, v) ==
    IF sorted = <<>> THEN <<v>>
    ELSE IF v < Head(sorted) THEN <<v>> \o sorted
    ELSE <<Head(sorted)>> \o insert_value(Tail(sorted), v)

RECURSIVE np_sort(_)
np_sort(a) == IF a = <<>> THEN <<>> ELSE insert_value(np_sort(Tail(a)), Head(a))

RECURSIVE dropna(_)
\* Series.dropna()
dropna(a) ==
    IF a = <<>> THEN <<>>
    ELSE IF IsNaN(Head(a)) THEN dropna(Tail(a))
    ELSE <<Head(a)>> \o dropna(Tail(a))

\* np.percentile(a, q), linear interpolation, times 100: a is not empty
np_percentile(a, q) ==
    LET s == np_sort(a)
        h == (Len(s) - 1) * q
        k == h \div 100
        f == h % 100
    IN 100 * s[k + 1] + (IF f = 0 THEN 0 ELSE f * (s[k + 2] - s[k + 1]))

\* the lengths np.select insists on
np_select_raises(condlist, choicelist) == Len(condlist) # Len(choicelist)

RECURSIVE np_select(_, _, _)
\* np.select for one row: the choice of the first condition that holds
np_select(condlist, choicelist, default) ==
    IF condlist = <<>> THEN default
    ELSE IF Head(condlist) THEN Head(choicelist)
    ELSE np_select(Tail(condlist), Tail(choicelist), default)

\* final_score <= q, for q times 100
score_le(final_score, q) == ~IsNaN(final_score) /\ 100 * final_score <= q

\* the first comparison reversed
rank_conditions_reversed(final_score, q) ==
    <<IsNaN(final_score), ~IsNaN(final_score) /\ 100 * final_score >= q[1],
      score_le(final_score, q[2]), score_le(final_score, q[3]),
      score_le(final_score, q[4])>>

\* the conditions of assign_star_ranks for one row
rank_conditions(final_score, q) ==
    <<IsNaN(final_score), score_le(final_score, q[1]), score_le(final_score, q[2]),
      score_le(final_score, q[3]), score_le(final_score, q[4])>>

\* choices = [np.nan, 1, 2, 3, 4, 5]
rank_choices == <<NaN, 1, 2, 3, 4, 5>>

assign_star_ranks ==
    /\ pc = "assign_star_ranks"
    /\ LET scores == dropna(Column(df, "final_score"))
           q == [j \in 1 .. 5 |-> np_percentile(scores, <<10, 30, 70, 90, 100>>[j])]
       IN df' = [r \in DOMAIN df |->
                    [starrank |->
                        np_select(rank_conditions(df[r].final_score, q),
                                  Tail(rank_choices),
                                  rank_choices[Len(rank_choices)])] @@ df[r]]
    /\ loc' = [groups |-> <<>>]
    /\ pc' = "calculate_cutoffs"
    /\ UNCHANGED <<err, cur>>

\* the star ranks present, ascending: the keys of the groupby
rank_keys(table) ==
    LET present == {table[r].starrank : r \in DOMAIN table} \ {NaN}
        RECURSIVE Asc(_)
        Asc(S) == IF S = {} THEN <<>>
                  ELSE LET m == CHOOSE x \in S : \A y \in S : x <= y
                       IN <<m>> \o Asc(S \ {m})
    IN Asc(present)

\* min and max of the scores of one rank, missing scores skipped
group_agg(table, rank) ==
    LET present == {table[r].final_score : r \in {x \in DOMAIN table :
                        table[x].starrank = rank /\ ~IsNaN(table[x].final_score)}}
    IN IF present = {} THEN [min |-> NaN, max |-> NaN]
       ELSE [min |-> CHOOSE m \in present : \A y \in present : m <= y,
             max |-> CHOOSE m \in present : \A y \in present : m >= y]

\* groupby('starrank')['final_score'].agg(['min', 'max']).reset_index()
groupby_agg(table) ==
    LET keys == rank_keys(table)
    IN [g \in DOMAIN keys |-> [starrank |-> keys[g]] @@ group_agg(table, keys[g])]

\* (a + b) / 2, counted in halves
midpoint(a, b) == IF IsNaN(a) \/ IsNaN(b) THEN NaN ELSE a + b

\* cutoffs.loc[k - 1, 'max'] and cutoffs.loc[k, 'min'] of line 180 + k exist
lookup_in_range(cutoffs, k) == k + 1 <= Len(cutoffs)

\* the boundary of line 180 + k
boundary(cutoffs, k) == midpoint(cutoffs[k].max, cutoffs[k + 1].min)

\* the boundaries assigned before the first lookup that is out of range
boundaries_stored(cutoffs) ==
    {k \in 1 .. 4 : \A j \in 1 .. k : lookup_in_range(cutoffs, j)}

calculate_cutoffs ==
    /\ pc = "calculate_cutoffs"
    /\ LET cutoffs == groupby_agg(df)
           stored == boundaries_stored(cutoffs)
       IN /\ loc' = [groups |-> cutoffs]
          /\ df' = [r \in DOMAIN df |->
                       [star_cutoff |-> [k \in stored |-> boundary(cutoffs, k)]] @@ df[r]]
          /\ err' = IF stored = 1 .. 4 THEN "none" ELSE "KeyError"
    /\ pc' = "cutoffs_done"
    /\ UNCHANGED cur

RECURSIVE SortedScores(_)
\* the columns of n composite scores, ascending, the missing ones last
SortedScores(n) ==
    IF n = 0 THEN {<<>>}
    ELSE {Append(p[1], p[2]) :
            p \in {q \in SortedScores(n - 1) \X ((1 .. MaxScore) \cup {NaN}) :
                      n = 1 \/ q[2] >= q[1][n - 1]}}

\* a scored table with at least one composite score present
InitRank ==
    /\ pc = "assign_star_ranks"
    /\ \E x \in SortedScores(ScoreRows) :
          /\ ~IsNaN(x[1])
          /\ df = [r \in 1 .. ScoreRows |-> [provfs |-> r, final_score |-> x[r]]]
    /\ loc = [groups |-> <<>>]
    /\ err = "none"
    /\ cur = <<>>

NextRank ==
    \/ assign_star_ranks
    \/ calculate_cutoffs

SpecRank == InitRank /\ [][NextRank]_vars

(* C2: a missing composite score gets a missing rank; a score <= q10 gets
   rank 1, else <= q30 rank 2, else <= q70 rank 3, else <= q90 rank 4, and
   every other score rank 5. *)
C2_RankByQuantile ==
    pc \in {"calculate_cutoffs", "cutoffs_done"} =>
        LET scores == dropna(Column(df, "final_score"))
            q10 == np_percentile(scores, 10)
            q30 == np_percentile(scores, 30)
            q70 == np_percentile(scores, 70)
            q90 == np_percentile(scores, 90)
        IN \A r \in DOMAIN df :
              LET x == df[r].final_score
              IN df[r].starrank =
                    IF IsNaN(x) THEN NaN
                    ELSE IF 100 * x <= q10 THEN 1
                    ELSE IF 100 * x <= q30 THEN 2
                    ELSE IF 100 * x <= q70 THEN 3
                    ELSE IF 100 * x <= q90 THEN 4
                    ELSE 5

(* C6: after assign_star_ranks, of two facilities with composite scores, the
   one with the lower score has no higher rank. *)
C6_RankMonotone ==
    pc \in {"calculate_cutoffs", "cutoffs_done"} =>
        \A a \in DOMAIN df : \A b \in DOMAIN df :
            (/\ ~IsNaN(df[a].final_score)
             /\ ~IsNaN(df[b].final_score)
             /\ df[a].final_score < df[b].final_score)
                => df[a].starrank <= df[b].starrank

\* four facilities with rising scores and rising ranks
C6_Witness ==
    /\ pc = "calculate_cutoffs"
    /\ \E a, b, c, d \in DOMAIN df :
          /\ ~IsNaN(df[d].final_score)
          /\ df[a].final_score < df[b].final_score
          /\ df[b].final_score < df[c].final_score
          /\ df[c].final_score < df[d].final_score
          /\ df[a].starrank < df[b].starrank
          /\ df[b].starrank < df[c].starrank
          /\ df[c].starrank < df[d].starrank

\* the scores of the facilities of one rank
scores_of_rank(k) ==
    {df[r].final_score : r \in {x \in DOMAIN df : df[x].starrank = k}}

(* C7: calculate_cutoffs fails, and stores no boundary, whenever one of the
   ranks 1 .. 5 has no facility; a boundary k it stores is the midpoint of
   the maximum of rank k and the minimum of rank k + 1. *)
C7_CutoffsPairAdjacentRanks ==
    pc = "cutoffs_done" =>
        LET stored == DOMAIN df[1].star_cutoff
        IN /\ (\E k \in 1 .. 5 : scores_of_rank(k) = {})
                 => (err # "none" /\ stored = {})
           /\ \A k \in stored :
                 /\ scores_of_rank(k) # {}
                 /\ scores_of_rank(k + 1) # {}
                 /\ df[1].star_cutoff[k] =
                       midpoint(group_agg(df, k).max, group_agg(df, k + 1).min)

-----------------------------------------------------------------------------
(* StarRatingCalculator.calculate_final_score *)

\* domain scores are 0 .. MaxFactor, or missing
MaxFactor == 2

\* the sum of weights[j] * values[j]: NaN as soon as one value is
weighted_sum(weights, values) ==
    IF \E j \in DOMAIN values : IsNaN(values[j]) THEN NaN
    ELSE Sum([j \in DOMAIN values |-> weights[j] * values[j]])

\* the np.where of the last choice, counted in 1/35:
\* 2/5, 1/5, 2/5 are 14, 7, 14 and 2/7, 2/7, 1/7, 2/7 are 10, 10, 5, 10
weighted_score(row) ==
    IF row.pdflag = 1
    THEN weighted_sum(<<14, 7, 14>>, <<row.factor1, row.factor3, row.factor4>>)
    ELSE weighted_sum(<<10, 10, 5, 10>>,
                      <<row.factor1, row.factor2, row.factor3, row.factor4>>)

\* the four conditions of calculate_final_score for one row
score_conditions(row) ==
    <<IsNaN(row.factor1), IsNaN(row.factor3), IsNaN(row.factor4),
      row.pdflag = 0 /\ IsNaN(row.factor2)>>

\* its five choices
score_choices(row) == <<NaN, NaN, NaN, NaN, weighted_score(row)>>

calculate_final_score ==
    /\ pc = "calculate_final_score"
    /\ IF \E r \in DOMAIN df :
             np_select_raises(score_conditions(df[r]), score_choices(df[r]))
       THEN /\ err' = "ValueError"
            /\ df' = df
       ELSE /\ err' = err
            /\ df' = [r \in DOMAIN df |->
                         [final_score |->
                             np_select(score_conditions(df[r]), score_choices(df[r]),
                                       weighted_score(df[r]))] @@ df[r]]
    /\ pc' = "score_done"
    /\ UNCHANGED <<loc, cur>>

\* one facility with its four domain scores and its flag; np.select and
\* np.where work row by row
InitScore ==
    /\ pc = "calculate_final_score"
    /\ \E f1, f2, f3, f4 \in (0 .. MaxFactor) \cup {NaN} : \E pdflag \in {0, 1} :
          df = <<[provfs |-> 1, factor1 |-> f1, factor2 |-> f2, factor3 |-> f3,
                  factor4 |-> f4, pdflag |-> pdflag]>>
    /\ loc = [i |-> 0]
    /\ err = "none"
    /\ cur = <<>>

NextScore == calculate_final_score

SpecScore == InitScore /\ [][NextScore]_vars

(* C3: the composite score is missing exactly when domain 1, 3 or 4 is
   missing, or pdflag is false and domain 2 is missing; otherwise it is
   0.4 f1 + 0.2 f3 + 0.4 f4 when pdflag is true and
   (2 f1 + 2 f2 + f3 + 2 f4) / 7 when it is false (counted in 1/35). *)
C3_CompositeScore ==
    pc = "score_done" =>
        /\ err = "none"
        /\ \A r \in DOMAIN df :
              LET row == df[r]
              IN row.final_score =
                    IF \/ IsNaN(row.factor1) \/ IsNaN(row.factor3) \/ IsNaN(row.factor4)
                       \/ (row.pdflag = 0 /\ IsNaN(row.factor2))
                    THEN NaN
                    ELSE IF row.pdflag = 1
                    THEN 14 * row.factor1 + 7 * row.factor3 + 14 * row.factor4
                    ELSE 10 * row.factor1 + 10 * row.factor2 + 5 * row.factor3
                         + 10 * row.factor4

-----------------------------------------------------------------------------
(* StarRatingCalculator.calculate_percentiles *)

\* facilities in the table given to calculate_percentiles
MaxPop == 201
\* the divisor of the percentile formula
Buckets == 200

\* rank(method='average') of the rows of run r, counted in halves; the table
\* is kept as runs of rows that share a value of the measure
rank_average(table, r) ==
    IF IsNaN(table[r].star_var) THEN NaN
    ELSE LET below == {x \in DOMAIN table : ~IsNaN(table[x].star_var)
                                            /\ table[x].star_var < table[r].star_var}
             less == Sum([x \in DOMAIN table |->
                             IF x \in below THEN table[x].rows ELSE 0])
         IN 2 * less + table[r].rows + 1

\* .astype(int) raises on a missing rank
astype_int_raises(table) == \E r \in DOMAIN table : IsNaN(rank_average(table, r))

\* (rank - 1).astype(int): the fraction is dropped
ranked(table, r) == (rank_average(table, r) - 2) \div 2

\* (ranked + 1) / 200 * 100, counted in halves of a percent
percentiles(table, r) == ((ranked(table, r) + 1) * 100 * 2) \div Buckets

\* norm.ppf(p / 100) for p in halves of a percent; a finite value is stood
\* for by p - 100, which keeps its sign and order
norm_ppf(p) ==
    IF p < 0 \/ p > 200 THEN NaN
    ELSE IF p = 0 THEN NInf
    ELSE IF p = 200 THEN PInf
    ELSE p - 100

calculate_percentiles ==
    /\ pc = "calculate_percentiles"
    /\ IF astype_int_raises(df)
       THEN /\ err' = "ValueError"
            /\ df' = df
       ELSE /\ err' = err
            /\ df' = [r \in DOMAIN df |->
                         [p |-> percentiles(df, r),
                          n |-> norm_ppf(percentiles(df, r))] @@ df[r]]
    /\ pc' = "percentiles_done"
    /\ UNCHANGED <<loc, cur>>

\* a population of at most MaxPop facilities: n1 with the lower value of the
\* measure, n2 with the higher one, and possibly one without a value
InitPercentiles ==
    /\ pc = "calculate_percentiles"
    /\ \E n1 \in 1 .. MaxPop : \E n2 \in 0 .. MaxPop - n1 : \E m \in 0 .. 1 :
          /\ n1 + n2 + m <= MaxPop
          /\ df = <<[star_var |-> 1, rows |-> n1]>>
                  \o (IF n2 > 0 THEN <<[star_var |-> 2, rows |-> n2]>> ELSE <<>>)
                  \o (IF m > 0 THEN <<[star_var |-> NaN, rows |-> m]>> ELSE <<>>)
    /\ loc = [i |-> 0]
    /\ err = "none"
    /\ cur = <<>>

NextPercentiles == calculate_percentiles

SpecPercentiles == InitPercentiles /\ [][NextPercentiles]_vars

(* C4: every percentile calculate_percentiles produces lies strictly inside
   (0, 100), and its probit value is finite, whatever the size of the
   population and its ties. *)
C4_PercentileInside ==
    (pc = "percentiles_done" /\ err = "none") =>
        \A r \in DOMAIN df :
            /\ 0 < df[r].p
            /\ df[r].p < 200
            /\ IsFinite(df[r].n)

-----------------------------------------------------------------------------
(* StarRatingCalculator.assign_availability *)

\* dates and cutoff values are 0 .. MaxLevel
MaxLevel == 2
\* patient counts are 0 .. MaxPatients
MaxPatients == 12

\* `pdnot pdonly` of line 15 is no expression: it is read as `not pdonly`
\* (a.pdnot = "not") or as `pdonly`
flag_test(a) == IF a.pdnot = "not" THEN ~a.pdonly ELSE a.pdonly

\* the first condition
first_rule(row, a) ==
    flag_test(a) /\ row.cert_date >= a.cutoff_date /\ row.cutoff < a.cutoff_v

\* the second condition
zero_patients_rule(row, a) == row.pt_cnt = 0 /\ a.var \notin {"SRR", "ED"}

\* the third condition
third_rule(row, a) == row.cutoff < a.cutoff_v \/ (a.var = "SWR" /\ row.pt_cnt < 11)

\* the second condition tested before the first
availability_zero_first(row, a) ==
    IF zero_patients_rule(row, a) THEN <<"998", "Not Available">>
    ELSE IF first_rule(row, a) THEN <<"999", "Not Available">>
    ELSE IF third_rule(row, a) THEN <<"999", "Not Available">>
    ELSE <<"001", "Available">>

\* the if / elif chain of assign_availability
availability(row, a) ==
    IF first_rule(row, a) THEN <<"999", "Not Available">>
    ELSE IF zero_patients_rule(row, a) THEN <<"998", "Not Available">>
    ELSE IF third_rule(row, a) THEN <<"999", "Not Available">>
    ELSE <<"001", "Available">>

assign_availability ==
    /\ pc = "assign_availability"
    /\ loc' = [loc EXCEPT !.result = availability(df[1], loc)]
    /\ pc' = "availability_done"
    /\ UNCHANGED <<df, err, cur>>

\* one row, and the arguments and the global cutoff_date of the call
InitAvailability ==
    /\ pc = "assign_availability"
    /\ \E cert_date, cutoff, cutoff_v, cutoff_date \in 0 .. MaxLevel :
       \E pt_cnt \in 0 .. MaxPatients : \E var \in {"SRR", "ED", "SWR", "STrR"} :
       \E pdonly \in BOOLEAN : \E pdnot \in {"not", ""} :
          /\ df = <<[cert_date |-> cert_date, cutoff |-> cutoff, pt_cnt |-> pt_cnt]>>
          /\ loc = [var |-> var, cutoff_v |-> cutoff_v, cutoff_date |-> cutoff_date,
                    pdonly |-> pdonly, pdnot |-> pdnot, result |-> <<"", "">>]
    /\ err = "none"
    /\ cur = <<>>

NextAvailability == assign_availability

SpecAvailability == InitAvailability /\ [][NextAvailability]_vars

(* C8, as claimed: a zero patient count on a measure outside the exemption
   set gives code "998", whatever the other values. *)
C8_ZeroPatientsGive998 ==
    (/\ pc = "availability_done"
     /\ df[1].pt_cnt = 0
     /\ loc.var \notin {"SRR", "ED"})
        => loc.result[1] = "998"

(* C8, amended: a zero patient count on a measure outside the exemption set
   gives code "998" unless the first rule matches (its flag test holds, the
   certification date is on or after the cutoff date and the cutoff column
   is below the cutoff value); then the code is "999". *)
C8_ZeroPatientsAfterFirstRule ==
    (/\ pc = "availability_done"
     /\ df[1].pt_cnt = 0
     /\ loc.var \notin {"SRR", "ED"})
        => loc.result[1] =
              IF /\ (IF loc.pdnot = "not" THEN ~loc.pdonly ELSE loc.pdonly)
                 /\ df[1].cert_date >= loc.cutoff_date
                 /\ df[1].cutoff < loc.cutoff_v
              THEN "999" ELSE "998"

\* a zero patient count that the first rule does not catch, though the
\* cutoff column is below the cutoff value
C8_Witness ==
    /\ pc = "availability_done"
    /\ df[1].pt_cnt = 0
    /\ loc.var = "SWR"
    /\ df[1].cutoff < loc.cutoff_v
    /\ df[1].cert_date < loc.cutoff_date
    /\ loc.result[1] = "998"

=============================================================================
